---- MODULE Spec2Model ----
(***************************************************************************)
(* Model of git-credentials' helper::Context wire codec                    *)
(* (git-credentials/src/helper/context.rs).                                *)
(*                                                                         *)
(* Byte strings (BString, BStr, &[u8], and the bytes of a String) are      *)
(* sequences of numbers in 0..255.  An Option is a sequence of length at   *)
(* most one: None is <<>> and Some(v) is <<v>>.  A Result is a record with *)
(* a boolean field ok and either val or err.                               *)
(***************************************************************************)
EXTENDS Naturals, Sequences, FiniteSets

VARIABLES ctx, out, wres, input, dec

vars == <<ctx, out, wres, input, dec>>

---------------------------------------------------------------------------
(* Bytes that the code names.                                              *)

NUL == 0
LF == 10
CR == 13
EQ == 61

None == <<>>
Some(v) == <<v>>

k_url == <<117, 114, 108>>
k_path == <<112, 97, 116, 104>>
k_protocol == <<112, 114, 111, 116, 111, 99, 111, 108>>
k_host == <<104, 111, 115, 116>>
k_username == <<117, 115, 101, 114, 110, 97, 109, 101>>
k_password == <<112, 97, 115, 115, 119, 111, 114, 100>>
k_quit == <<113, 117, 105, 116>>

b_true == <<116, 114, 117, 101>>
b_false == <<102, 97, 108, 115, 101>>
b_yes == <<121, 101, 115>>
b_on == <<111, 110>>
b_no == <<110, 111>>
b_off == <<111, 102, 102>>

---------------------------------------------------------------------------
(* Library functions the code calls (bstr, core::str), by what they do.    *)

\* [u8]::contains(&b) / str::contains(char) for a one-byte char.
Contains(s, b) == \E i \in 1..Len(s) : s[i] = b

DropFirst(s, n) == SubSeq(s, n + 1, Len(s))

\* Index of the first occurrence of byte b in s, 0 when there is none.
FindByte(s, b) ==
  IF Contains(s, b) THEN CHOOSE i \in 1..Len(s) : s[i] = b /\ \A j \in 1..(i - 1) : s[j] # b
  ELSE 0

\* The byte ranges that must follow lead byte b in well-formed UTF-8
\* (Unicode table 3-7); the empty range <<1, 0>> marks a byte that cannot lead.
Utf8Tail(b) ==
  IF b < 128 THEN <<>>
  ELSE IF b >= 194 /\ b <= 223 THEN <<<<128, 191>>>>
  ELSE IF b = 224 THEN <<<<160, 191>>, <<128, 191>>>>
  ELSE IF (b >= 225 /\ b <= 236) \/ b = 238 \/ b = 239 THEN <<<<128, 191>>, <<128, 191>>>>
  ELSE IF b = 237 THEN <<<<128, 159>>, <<128, 191>>>>
  ELSE IF b = 240 THEN <<<<144, 191>>, <<128, 191>>, <<128, 191>>>>
  ELSE IF b >= 241 /\ b <= 243 THEN <<<<128, 191>>, <<128, 191>>, <<128, 191>>>>
  ELSE IF b = 244 THEN <<<<128, 143>>, <<128, 191>>, <<128, 191>>>>
  ELSE <<<<1, 0>>>>

\* How many of the bytes after the lead byte of s are the continuation
\* bytes its lead byte asks for, in order.
TailMatched(s) ==
  LET t == Utf8Tail(s[1])
      good(i) == i + 1 <= Len(s) /\ s[i + 1] >= t[i][1] /\ s[i + 1] <= t[i][2]
      all(n) == \A i \in 1..n : good(i)
  IN  CHOOSE n \in 0..Len(t) : all(n) /\ (n = Len(t) \/ ~good(n + 1))

\* Length of the well-formed scalar value at the head of s, 0 when s starts
\* with an ill-formed sequence.
CharLen(s) ==
  IF TailMatched(s) = Len(Utf8Tail(s[1])) THEN 1 + Len(Utf8Tail(s[1])) ELSE 0

RECURSIVE is_utf8(_)
\* ByteSlice::is_utf8 / ByteSlice::to_str().is_ok()
is_utf8(s) ==
  IF s = <<>> THEN TRUE
  ELSE IF CharLen(s) = 0 THEN FALSE
  ELSE is_utf8(DropFirst(s, CharLen(s)))

REPLACEMENT == <<239, 191, 189>>

RECURSIVE to_string(_)
\* BString's Display (ToString): well-formed text is copied, every maximal
\* ill-formed subpart becomes U+FFFD.
to_string(s) ==
  IF s = <<>> THEN <<>>
  ELSE IF CharLen(s) > 0
    THEN SubSeq(s, 1, CharLen(s)) \o to_string(DropFirst(s, CharLen(s)))
    ELSE REPLACEMENT \o to_string(DropFirst(s, 1 + TailMatched(s)))

\* u8::to_ascii_lowercase
to_ascii_lowercase(b) == IF b >= 65 /\ b <= 90 THEN b + 32 ELSE b

\* [u8]::eq_ignore_ascii_case
eq_ignore_ascii_case(a, b) ==
  /\ Len(a) = Len(b)
  /\ \A i \in 1..Len(a) : to_ascii_lowercase(a[i]) = to_ascii_lowercase(b[i])

\* bstr's trim_last_terminator: a line loses its "\n" and, only then, a
\* "\r" right before it.
trim_last_terminator(s) ==
  IF s # <<>> /\ s[Len(s)] = LF
  THEN LET t == SubSeq(s, 1, Len(s) - 1)
       IN  IF t # <<>> /\ t[Len(t)] = CR THEN SubSeq(t, 1, Len(t) - 1) ELSE t
  ELSE s

\* One call of next() on ByteSlice::lines() over the unread bytes `rest`:
\* None at the end of the bytes, else the next line without its terminator
\* and the bytes left after it.
lines_next(rest) ==
  IF rest = <<>> THEN [line |-> None, rest |-> <<>>]
  ELSE LET i == FindByte(rest, LF)
           n == IF i = 0 THEN Len(rest) ELSE i
       IN  [line |-> Some(trim_last_terminator(SubSeq(rest, 1, n))),
            rest |-> DropFirst(rest, n)]

\* Mutant of splitn2: the line is split at its last '='.
split_at_last(line) ==
  IF ~Contains(line, EQ) THEN <<line>>
  ELSE LET i == CHOOSE j \in 1..Len(line) :
                  line[j] = EQ /\ \A m \in (j + 1)..Len(line) : line[m] # EQ
       IN  <<SubSeq(line, 1, i - 1), DropFirst(line, i)>>

\* line.splitn(2, |b| *b == b'='): one piece when the line has no '=', else
\* the bytes before the first '=' and all the bytes after it.
splitn2(line) ==
  LET i == FindByte(line, EQ)
  IN  IF i = 0 THEN <<line>>
      ELSE <<SubSeq(line, 1, i - 1), DropFirst(line, i)>>

---------------------------------------------------------------------------
(* helper::Context and the results of the two operations.                  *)

\* Context::default()
DefaultContext ==
  [url |-> None, path |-> None, protocol |-> None, host |-> None,
   username |-> None, password |-> None, quit |-> None]

Ok(v) == [ok |-> TRUE, val |-> v]
Err(e) == [ok |-> FALSE, err |-> e]

\* context::Error::Encoding { key, value }
Encoding(key, value) == [kind |-> "Encoding", key |-> key, value |-> value]

\* decode::Error::IllformedUtf8InValue { key, value }
IllformedUtf8InValue(key, value) ==
  [kind |-> "IllformedUtf8InValue", key |-> key, value |-> value]

\* decode::Error::Syntax { line }
Syntax(line) == [kind |-> "Syntax", line |-> line]

\* std::io::Error::new(std::io::ErrorKind::Other, err)
IoOther(e) == [kind |-> "Other", inner |-> e]

---------------------------------------------------------------------------
(* serde::validate, serde::parse_true, serde::parse_false                  *)

\* Mutant of validate: the value is not looked at.
validate_value_unchecked(key, value) ==
  IF Contains(key, NUL) \/ Contains(key, LF)
  THEN Err(Encoding(key, value))
  ELSE Ok(<<>>)

validate(key, value) ==
  IF Contains(key, NUL) \/ Contains(key, LF) \/ Contains(value, NUL) \/ Contains(value, LF)
  THEN Err(Encoding(key, value))
  ELSE Ok(<<>>)

parse_true(value) ==
  \/ eq_ignore_ascii_case(value, b_yes)
  \/ eq_ignore_ascii_case(value, b_on)
  \/ eq_ignore_ascii_case(value, b_true)

\* Mutant of parse_false: the empty value is not a false token.
parse_false_nonempty(value) ==
  \/ eq_ignore_ascii_case(value, b_no)
  \/ eq_ignore_ascii_case(value, b_off)
  \/ eq_ignore_ascii_case(value, b_false)

parse_false(value) ==
  \/ eq_ignore_ascii_case(value, b_no)
  \/ eq_ignore_ascii_case(value, b_off)
  \/ eq_ignore_ascii_case(value, b_false)
  \/ value = <<>>

---------------------------------------------------------------------------
(* Context::write_to.  The sink is an in-memory buffer whose writes do not *)
(* fail; a write_to in progress is the pair of the bytes written so far    *)
(* and the result so far.                                                  *)

ByteFields == <<"url", "path">>
TextFields == <<"protocol", "host", "username", "password">>

\* The key string each loop pairs with a field.
KeyOf(f) ==
  CASE f = "url" -> k_url
    [] f = "path" -> k_path
    [] f = "protocol" -> k_protocol
    [] f = "host" -> k_host
    [] f = "username" -> k_username
    [] f = "password" -> k_password
    [] f = "quit" -> k_quit

\* Mutant of write_key: the line is not terminated.
write_key_no_newline(o, key, value) == o \o key \o <<EQ>> \o value

\* fn write_key: four write_all calls.
write_key(o, key, value) == o \o key \o <<EQ>> \o value \o <<LF>>

RECURSIVE WriteLoop(_, _, _)
\* The two for loops of write_to over (key, value) pairs: an absent field is
\* skipped; a present one is validated, the `?` returns at once on failure
\* (what was written stays written), else its line is written.
WriteLoop(self, fields, st) ==
  IF fields = <<>> \/ ~st.res.ok THEN st
  ELSE LET f == Head(fields)
           key == KeyOf(f)
       IN  IF self[f] = None THEN WriteLoop(self, Tail(fields), st)
           ELSE LET value == self[f][1]
                    v == validate(key, value)
                IN  IF ~v.ok THEN [out |-> st.out, res |-> Err(IoOther(v.err))]
                    ELSE WriteLoop(self, Tail(fields),
                                   [out |-> write_key(st.out, key, value), res |-> st.res])

\* if let Some(quit) = self.quit { write_key(.., "quit", "true" | "false") }
write_quit(self, st) ==
  IF self.quit = None THEN st
  ELSE [out |-> write_key(st.out, k_quit, IF self.quit[1] THEN b_true ELSE b_false),
        res |-> st.res]

write_to(self) ==
  LET st1 == WriteLoop(self, ByteFields, [out |-> <<>>, res |-> Ok(<<>>)])
      st2 == IF st1.res.ok THEN WriteLoop(self, TextFields, st1) ELSE st1
  IN  IF st2.res.ok THEN write_quit(self, st2) ELSE st2

---------------------------------------------------------------------------
(* Context::from_bytes.                                                    *)

\* .take_while(|line| !line.is_empty())
take_while_pred(line) == line # <<>>

\* The closure given to .map(): split at the first '=', require a UTF-8 key
\* and a value, validate them.
parse_line(line) ==
  LET it == splitn2(line)
  IN  IF Len(it) = 2 /\ is_utf8(it[1])
      THEN LET v == validate(it[1], it[2])
           IN  IF v.ok THEN Ok([key |-> it[1], value |-> it[2]]) ELSE Err(v.err)
      ELSE Err(Syntax(line))

TextKeys == {k_protocol, k_host, k_username, k_password}

\* The field a text key names.
TextFieldOf(key) ==
  CASE key = k_protocol -> "protocol"
    [] key = k_host -> "host"
    [] key = k_username -> "username"
    [] key = k_password -> "password"

\* The quit arm: parse_true first, else the negation of parse_false.
quit_flag(value) == IF parse_true(value) THEN TRUE ELSE ~parse_false(value)

\* Mutant of dispatch: a text value is converted without the UTF-8 check.
dispatch_lossy(c, key, value) ==
  IF key \in TextKeys THEN Ok([c EXCEPT ![TextFieldOf(key)] = Some(to_string(value))])
  ELSE IF key = k_url THEN Ok([c EXCEPT !.url = Some(value)])
  ELSE IF key = k_path THEN Ok([c EXCEPT !.path = Some(value)])
  ELSE IF key = k_quit THEN Ok([c EXCEPT !.quit = Some(quit_flag(value))])
  ELSE Ok(c)

\* Mutant of dispatch: a key that is none of the seven is an error.
dispatch_strict(c, key, value) ==
  IF key \in TextKeys
  THEN IF ~is_utf8(value) THEN Err(IllformedUtf8InValue(key, value))
       ELSE Ok([c EXCEPT ![TextFieldOf(key)] = Some(to_string(value))])
  ELSE IF key = k_url THEN Ok([c EXCEPT !.url = Some(value)])
  ELSE IF key = k_path THEN Ok([c EXCEPT !.path = Some(value)])
  ELSE IF key = k_quit THEN Ok([c EXCEPT !.quit = Some(quit_flag(value))])
  ELSE Err(Syntax(key \o <<EQ>> \o value))

\* The match on key in the loop body.
dispatch(c, key, value) ==
  IF key \in TextKeys
  THEN IF ~is_utf8(value) THEN Err(IllformedUtf8InValue(key, value))
       ELSE Ok([c EXCEPT ![TextFieldOf(key)] = Some(to_string(value))])
  ELSE IF key = k_url THEN Ok([c EXCEPT !.url = Some(value)])
  ELSE IF key = k_path THEN Ok([c EXCEPT !.path = Some(value)])
  ELSE IF key = k_quit THEN Ok([c EXCEPT !.quit = Some(quit_flag(value))])
  ELSE Ok(c)

\* A from_bytes call that has not started.
IdleDecoder ==
  [state |-> "Idle", rest |-> <<>>, taken |-> 0, line |-> <<>>,
   ctx |-> DefaultContext, ret |-> None]

\* Entry of from_bytes: the default Context and the line iterator at the
\* start of the input.
StartDecoder(inp) ==
  [state |-> "Scanning", rest |-> inp, taken |-> 0, line |-> <<>>,
   ctx |-> DefaultContext, ret |-> None]

RECURSIVE iter_next_filter(_)
\* Mutant of iter_next: .filter() in the place of .take_while(), so an empty
\* line is skipped and the lines after it are read.
iter_next_filter(rest) ==
  LET nx == lines_next(rest)
  IN  IF nx.line = None THEN [item |-> None, rest |-> nx.rest, pulled |-> <<>>]
      ELSE IF nx.line[1] = <<>>
        THEN LET more == iter_next_filter(nx.rest)
             IN  [more EXCEPT !.pulled = <<nx.line[1]>> \o more.pulled]
        ELSE [item |-> Some(parse_line(nx.line[1])), rest |-> nx.rest,
              pulled |-> <<nx.line[1]>>]

\* One call of next() on input.lines().take_while(..).map(..): None at the
\* end of the input and at the first empty line, else the closure's result
\* for the next line.  `pulled` holds the lines taken from lines().
iter_next(rest) ==
  LET nx == lines_next(rest)
  IN  IF nx.line = None THEN [item |-> None, rest |-> nx.rest, pulled |-> <<>>]
      ELSE IF ~take_while_pred(nx.line[1])
        THEN [item |-> None, rest |-> nx.rest, pulled |-> <<nx.line[1]>>]
        ELSE [item |-> Some(parse_line(nx.line[1])), rest |-> nx.rest,
              pulled |-> <<nx.line[1]>>]

\* Mutant of LoopStep: a line that fails is skipped and the loop goes on.
LoopStepSkipsErrors(d) ==
  LET it == iter_next(d.rest)
      seen == [d EXCEPT !.rest = it.rest,
                        !.taken = d.taken + Len(it.pulled),
                        !.line = IF it.pulled = <<>> THEN d.line
                                 ELSE it.pulled[Len(it.pulled)]]
  IN  IF it.item = None
      THEN [seen EXCEPT !.state = "Done", !.ret = Some(Ok(d.ctx))]
      ELSE LET res == it.item[1]
           IN  IF ~res.ok THEN seen
               ELSE LET r == dispatch(d.ctx, res.val.key, res.val.value)
                    IN  IF ~r.ok THEN seen ELSE [seen EXCEPT !.ctx = r.val]

\* One turn of the for loop: ask the iterator for the next item.  None ends
\* the loop and returns Ok(ctx); the `?` on the item, or the return in the
\* body, returns the error of this line; else the line is stored.  `taken`
\* counts the lines lines() has yielded so far and `line` is the last one.
LoopStep(d) ==
  LET it == iter_next(d.rest)
      seen == [d EXCEPT !.rest = it.rest,
                        !.taken = d.taken + Len(it.pulled),
                        !.line = IF it.pulled = <<>> THEN d.line
                                 ELSE it.pulled[Len(it.pulled)]]
  IN  IF it.item = None
      THEN [seen EXCEPT !.state = "Done", !.ret = Some(Ok(d.ctx))]
      ELSE LET res == it.item[1]
           IN  IF ~res.ok
               THEN [seen EXCEPT !.state = "Failed", !.ret = Some(Err(res.err))]
               ELSE LET r == dispatch(d.ctx, res.val.key, res.val.value)
                    IN  IF ~r.ok
                        THEN [seen EXCEPT !.state = "Failed", !.ret = Some(Err(r.err))]
                        ELSE [seen EXCEPT !.ctx = r.val]

RECURSIVE RunLoop(_)
\* The loop run to its end.
RunLoop(d) == IF d.state # "Scanning" THEN d ELSE RunLoop(LoopStep(d))

\* Context::from_bytes(input) as a function: the Result it returns.
from_bytes(inp) == RunLoop(StartDecoder(inp)).ret[1]

---------------------------------------------------------------------------
(* The inputs the operations are applied to.                               *)

\* Longest wire input in lines, for the inputs built from CoreLines.
MaxLines == 3
\* Longest value of a quit line built from TokenBytes.
MaxTokenLen == 3
\* How many fields of a Context given to write_to hold a value other than
\* PlainValue.
MaxSpecial == 1

v_plain == <<97, 61, 98>>
v_cr == <<118, 13>>
v_nul == <<118, 0>>
v_lf == <<118, 10, 119>>
v_bad == <<255>>
v_2byte == <<195, 169>>
v_cut == <<195>>

k_foo == <<102, 111, 111>>
k_bad == <<255, 107>>
k_nul == <<102, 0>>

l_malformed == <<109, 97, 108, 102, 111, 114, 109, 101, 100>>
v_banana == <<98, 97, 110, 97, 110, 97>>
v_On == <<79, 110>>

Line(key, value) == key \o <<EQ>> \o value

\* Lines of the inputs of up to MaxLines lines: the empty line, lines the
\* decoder stores or ignores, and one line of each kind it fails on.
CoreLines ==
  { <<>>, <<CR>>,
    Line(k_url, v_plain), Line(k_host, v_cr), Line(k_quit, v_On),
    Line(k_foo, v_plain), Line(k_foo, v_nul),
    Line(k_username, v_bad), l_malformed }

Keys == {k_url, k_path, k_protocol, k_host, k_username, k_password, k_quit,
         k_foo, <<>>, k_bad, k_nul}

Values == {<<>>, v_plain, v_cr, v_nul, v_bad, v_2byte, v_cut}

TokenBytes == {110, 111, 102, 78, 79, 70}

Words == {b_yes, b_on, b_true, b_no, b_off, b_false}

\* u8::to_ascii_uppercase
to_ascii_uppercase(b) == IF b >= 97 /\ b <= 122 THEN b - 32 ELSE b

\* The word with the bytes at the positions in `up` in upper case.
Cased(w, up) == [i \in 1..Len(w) |-> IF i \in up THEN to_ascii_uppercase(w[i]) ELSE w[i]]

QuitTokens ==
  UNION {[1..n -> TokenBytes] : n \in 0..MaxTokenLen}
  \cup {Cased(w, up) : w \in Words, up \in {{}, {1}, {2}, {1, 2, 3, 4, 5}}}
  \cup {w \o <<115>> : w \in Words}
  \cup {v_banana, v_cr}

RECURSIVE Join(_, _)
\* The lines with "\n" between them, and after the last one when `last` says so.
Join(ls, last) ==
  IF ls = <<>> THEN <<>>
  ELSE IF Len(ls) = 1 THEN Head(ls) \o (IF last THEN <<LF>> ELSE <<>>)
  ELSE Head(ls) \o <<LF>> \o Join(Tail(ls), last)

LineSeqs == UNION {[1..n -> CoreLines] : n \in 0..MaxLines}

Inputs ==
  {Join(ls, last) : ls \in LineSeqs, last \in BOOLEAN}
  \cup {Join(<<Line(k, v)>>, last) : k \in Keys, v \in Values, last \in BOOLEAN}
  \cup {Join(<<Line(k_quit, t)>>, TRUE) : t \in QuitTokens}

AllFields == {"url", "path", "protocol", "host", "username", "password"}

\* url and path are BString: any bytes.  The other four are String, which
\* holds well-formed UTF-8 only.
SpecialValues(f) ==
  IF f \in {"url", "path"} THEN {<<>>, v_cr, v_nul, v_lf, v_2byte, v_bad}
  ELSE {<<>>, v_cr, v_nul, v_lf, v_2byte}

Contexts ==
  { [f \in AllFields \cup {"quit"} |->
       IF f = "quit" THEN q
       ELSE IF f \in DOMAIN sp THEN Some(sp[f])
       ELSE IF f \in present THEN Some(v_plain) ELSE None] :
    q \in {None, Some(TRUE), Some(FALSE)},
    present \in SUBSET AllFields,
    sp \in UNION { UNION { [S -> UNION {SpecialValues(f) : f \in S}] : S \in {T \in SUBSET AllFields : Cardinality(T) = n} }
                   : n \in 0..MaxSpecial } }

---------------------------------------------------------------------------
(* The state machine.  One behaviour is one use of the codec: a write_to   *)
(* and a from_bytes of what it wrote, or a from_bytes of bytes from        *)
(* elsewhere.  The calls share no state, so longer sequences of calls add  *)
(* nothing.                                                                *)
(*   ctx    the Context write_to is called on                              *)
(*   out    the sink write_to writes to                                    *)
(*   wres   None before write_to returns, then Some of its result          *)
(*   input  the bytes from_bytes is called on                              *)
(*   dec    the from_bytes call: its position, locals and return value     *)

Init ==
  /\ ctx = DefaultContext
  /\ out = <<>>
  /\ wres = None
  /\ input = <<>>
  /\ dec = IdleDecoder

\* A caller builds a Context and calls write_to on it with an empty sink.
WriteTo ==
  /\ wres = None
  /\ dec.state = "Idle"
  /\ \E c \in Contexts :
       /\ ctx' = c
       /\ out' = write_to(c).out
       /\ wres' = Some(write_to(c).res)
  /\ UNCHANGED <<input, dec>>

\* from_bytes is called on what a successful write_to wrote.
FromBytesWritten ==
  /\ wres # None
  /\ wres[1].ok
  /\ dec.state = "Idle"
  /\ input' = out
  /\ dec' = StartDecoder(out)
  /\ UNCHANGED <<ctx, out, wres>>

\* from_bytes is called on bytes that come from elsewhere.
FromBytes ==
  /\ wres = None
  /\ dec.state = "Idle"
  /\ \E inp \in Inputs :
       /\ input' = inp
       /\ dec' = StartDecoder(inp)
  /\ UNCHANGED <<ctx, out, wres>>

\* One turn of the loop of from_bytes.
Step ==
  /\ dec.state = "Scanning"
  /\ dec' = LoopStep(dec)
  /\ UNCHANGED <<ctx, out, wres, input>>

Next ==
  \/ WriteTo
  \/ FromBytesWritten
  \/ FromBytes
  \/ Step

Spec == Init /\ [][Next]_vars

---------------------------------------------------------------------------
(* What the claims speak of, stated on bytes.                              *)

\* A value the format can carry: no NUL and no line feed.
Legal(v) == ~Contains(v, NUL) /\ ~Contains(v, LF)

Present(c) == {f \in AllFields : c[f] # None}

Returned == dec.state \in {"Done", "Failed"}

\* The line `key=value\n` of a field, nothing when the field is absent.
FieldLine(c, f) ==
  IF c[f] = None THEN <<>> ELSE KeyOf(f) \o <<EQ>> \o c[f][1] \o <<LF>>

QuitLine(c) ==
  IF c.quit = None THEN <<>>
  ELSE k_quit \o <<EQ>> \o (IF c.quit[1] THEN b_true ELSE b_false) \o <<LF>>

Wire(c) ==
  FieldLine(c, "url") \o FieldLine(c, "path") \o FieldLine(c, "protocol")
  \o FieldLine(c, "host") \o FieldLine(c, "username") \o FieldLine(c, "password")
  \o QuitLine(c)

CountByte(s, b) == Cardinality({i \in 1..Len(s) : s[i] = b})

HasEq(line) == Contains(line, EQ)
KeyPart(line) == SubSeq(line, 1, FindByte(line, EQ) - 1)
ValuePart(line) == SubSeq(line, FindByte(line, EQ) + 1, Len(line))

RECURSIVE AllLines(_)
\* Every line of the bytes, as lines() yields them.
AllLines(s) ==
  IF s = <<>> THEN <<>>
  ELSE <<lines_next(s).line[1]>> \o AllLines(lines_next(s).rest)

\* The lines before the first empty line.
Before(ls) ==
  IF \E i \in 1..Len(ls) : ls[i] = <<>>
  THEN SubSeq(ls, 1, (CHOOSE i \in 1..Len(ls) : ls[i] = <<>> /\ \A j \in 1..(i - 1) : ls[j] # <<>>) - 1)
  ELSE ls

---------------------------------------------------------------------------
(* The claims.                                                             *)

\* C1 (as claimed): when every present field of the Context is legal,
\* write_to succeeds, and from_bytes of the bytes written returns a Context
\* equal to the original one in all seven fields.
C1_RoundTrip ==
  /\ (wres # None /\ \A f \in Present(ctx) : Legal(ctx[f][1])) => wres[1].ok
  /\ (wres # None /\ wres[1].ok /\ Returned) => dec.ret = Some(Ok(ctx))

\* C3: when write_to succeeds the sink holds exactly the lines key=value\n
\* of the present fields in the order url, path, protocol, host, username,
\* password, quit, with quit's value true or false; so it holds as many
\* lines as fields are present, and nothing for the empty Context.
C3_OutputShape ==
  (wres # None /\ wres[1].ok) =>
    /\ out = Wire(ctx)
    /\ CountByte(out, LF) = Cardinality(Present(ctx)) + (IF ctx.quit = None THEN 0 ELSE 1)
    /\ (ctx = DefaultContext => out = <<>>)

\* C3's case: a write_to that succeeded on a Context with all seven fields.
C3_Witness ==
  /\ wres # None /\ wres[1].ok
  /\ Present(ctx) = AllFields
  /\ ctx.quit = Some(FALSE)
  /\ out # <<>>

\* C7 (as claimed): a failing from_bytes returns the error and no Context,
\* and a write_to that fails on a field has written nothing to the sink.
C7_NoPartialResult ==
  /\ dec.state = "Failed" => (~dec.ret[1].ok /\ DOMAIN dec.ret[1] = {"ok", "err"})
  /\ (wres # None /\ ~wres[1].ok) => out = <<>>

\* Whether some line before the first empty line has a NUL in its value part.
NulValueLine(inp) ==
  LET ls == Before(AllLines(inp))
  IN  \E i \in 1..Len(ls) : HasEq(ls[i]) /\ Contains(ValuePart(ls[i]), NUL)

\* write_to has failed with an I/O error that wraps Error::Encoding.
WriteFailedEncoding ==
  /\ ~wres[1].ok
  /\ wres[1].err.kind = "Other"
  /\ wres[1].err.inner.kind = "Encoding"

\* C2 (as claimed): write_to on a Context with a present value that holds a
\* NUL or a line feed fails with an error wrapping Error::Encoding, and
\* from_bytes on an input with a line before the first empty line whose
\* value part holds a NUL returns decode::Error::Encoding, whatever the key
\* part of that line is.
C2_Rejection ==
  /\ (wres # None /\ \E f \in Present(ctx) : ~Legal(ctx[f][1])) => WriteFailedEncoding
  /\ (Returned /\ NulValueLine(input)) =>
       (~dec.ret[1].ok /\ dec.ret[1].err.kind = "Encoding")

\* C2 (amended): write_to as claimed.  from_bytes on such an input fails;
\* when the line with the NUL in its value is the line that fails, the error
\* is Encoding with that line's key and value if the key part is valid
\* UTF-8, and Syntax with that line if it is not.
C2_RejectionAmended ==
  /\ (wres # None /\ \E f \in Present(ctx) : ~Legal(ctx[f][1])) => WriteFailedEncoding
  /\ (Returned /\ NulValueLine(input)) => ~dec.ret[1].ok
  /\ (dec.state = "Failed" /\ HasEq(dec.line) /\ Contains(ValuePart(dec.line), NUL)) =>
       dec.ret[1].err = IF is_utf8(KeyPart(dec.line))
                        THEN Encoding(KeyPart(dec.line), ValuePart(dec.line))
                        ELSE Syntax(dec.line)

\* C2's case: from_bytes has failed on a line with a key that is none of the
\* seven and a NUL in the value.
C2_Witness ==
  /\ dec.state = "Failed"
  /\ dec.line = Line(k_foo, v_nul)
  /\ dec.ret[1].err = Encoding(k_foo, v_nul)

RECURSIVE ThroughSentinel(_)
\* The bytes up to the end of the first empty line, terminator included; all
\* the bytes when no line is empty.
ThroughSentinel(s) ==
  IF s = <<>> THEN <<>>
  ELSE LET nx == lines_next(s)
           used == SubSeq(s, 1, Len(s) - Len(nx.rest))
       IN  IF nx.line[1] = <<>> THEN used ELSE used \o ThroughSentinel(nx.rest)

HasSentinel(inp) == Before(AllLines(inp)) # AllLines(inp)

\* Bytes to put after the empty line: nothing, a line without '=', a NUL,
\* ill-formed UTF-8, a host line, another empty line.
Junk ==
  {<<>>, l_malformed, <<NUL, LF>>, v_bad \o <<LF>>, Line(k_host, v_plain) \o <<LF>>,
   <<LF>>, Line(k_username, v_bad)}

\* C4: from_bytes takes no line after the first empty line, and what it
\* returns is what it returns for the same bytes up to the first empty line
\* followed by any other bytes.
C4_Sentinel ==
  /\ dec.taken <= Len(Before(AllLines(input))) + 1
  /\ (Returned /\ HasSentinel(input)) =>
       \A j \in Junk : from_bytes(ThroughSentinel(input) \o j) = dec.ret[1]

\* C4's case: url, an empty line, then a line without '=': Ok with the url.
C4_Witness ==
  /\ input = Join(<<Line(k_url, v_plain), <<>>, l_malformed>>, TRUE)
  /\ dec.state = "Done"
  /\ dec.ret[1] = Ok([DefaultContext EXCEPT !.url = Some(v_plain)])

Lower(v) == [i \in 1..Len(v) |-> to_ascii_lowercase(v[i])]

\* The last line taken is key=value with a value the validator accepts.
TookLine(key) ==
  /\ dec.taken > 0
  /\ HasEq(dec.line)
  /\ KeyPart(dec.line) = key
  /\ ~Contains(ValuePart(dec.line), NUL)

\* C5: after a line quit=<value> is decoded, quit is Some(false) exactly when
\* <value> is empty or is no, off or false in any ASCII case, and Some(true)
\* for every other value; the line does not make from_bytes fail.
C5_QuitVocabulary ==
  TookLine(k_quit) =>
    /\ dec.state # "Failed"
    /\ dec.ctx.quit = Some(Lower(ValuePart(dec.line)) \notin {<<>>, b_no, b_off, b_false})

\* C5's case: quit=banana has been decoded to Some(true).
C5_Witness ==
  /\ dec.line = Line(k_quit, v_banana)
  /\ dec.state = "Done"
  /\ dec.ret[1].val.quit = Some(TRUE)

\* The offsets at which a line starts (or would start, at the end) and
\* before which no line is empty.
InsertPoints(inp) ==
  {p \in 0..Len(inp) : (p = 0 \/ inp[p] = LF) /\ ~HasSentinel(SubSeq(inp, 1, p))}

Insert(inp, p, line) == SubSeq(inp, 1, p) \o line \o <<LF>> \o DropFirst(inp, p)

k_URL == <<85, 82, 76>>

\* Lines whose key is none of the seven: a UTF-8 key without NUL and a value
\* without NUL.
UnknownLegal ==
  {Line(k_foo, v_plain), Line(<<>>, <<>>), Line(k_URL, v_bad \o v_cr)}

\* Lines whose key is none of the seven, with any key and value.
UnknownAny ==
  UnknownLegal \cup {Line(k_foo, v_nul), Line(k_bad, v_plain), Line(k_nul, v_plain)}

\* C6 (as claimed): putting a line k=v with a key that is none of the seven,
\* and any value, before the first empty line of an input that decodes does
\* not make from_bytes fail and changes none of the seven fields.
C6_UnknownKey ==
  (Returned /\ dec.ret[1].ok) =>
    \A p \in InsertPoints(input), l \in UnknownAny :
      from_bytes(Insert(input, p, l)) = dec.ret[1]

\* C6 (amended): the same for a key that is valid UTF-8 and has no NUL, and
\* a value that has no NUL; from_bytes then returns what it returns without
\* the line.
C6_UnknownKeyAmended ==
  Returned =>
    \A p \in InsertPoints(input), l \in UnknownLegal :
      from_bytes(Insert(input, p, l)) = dec.ret[1]

\* C6's case: an input with a foo line between a url line and a quit line
\* has decoded to the url and the flag.
C6_Witness ==
  /\ input = Join(<<Line(k_url, v_plain), Line(k_foo, v_plain), Line(k_quit, v_On)>>, TRUE)
  /\ dec.state = "Done"
  /\ dec.ret[1] = Ok([DefaultContext EXCEPT !.url = Some(v_plain), !.quit = Some(TRUE)])

\* C8: a line with key protocol, host, username or password and a value
\* without NUL that is not valid UTF-8 fails with IllformedUtf8InValue of
\* that key and value; the same value under url or path does not fail and is
\* stored as it is.
C8_TextAndByteFields ==
  /\ \A k \in TextKeys :
       (TookLine(k) /\ ~is_utf8(ValuePart(dec.line))) =>
         /\ dec.state = "Failed"
         /\ dec.ret[1] = Err(IllformedUtf8InValue(k, ValuePart(dec.line)))
  /\ \A f \in {"url", "path"} :
       (TookLine(KeyOf(f)) /\ ~is_utf8(ValuePart(dec.line))) =>
         /\ dec.state # "Failed"
         /\ dec.ctx[f] = Some(ValuePart(dec.line))

\* C8's case: from_bytes has failed on username=<0xFF>.
C8_Witness ==
  /\ dec.line = Line(k_username, v_bad)
  /\ dec.state = "Failed"
  /\ dec.ret[1].err.kind = "IllformedUtf8InValue"

\* C9: when the line that fails has no '=' or a key part that is not valid
\* UTF-8, the error is Syntax with exactly that line of the input; a Syntax
\* error has no other cause, and a line is split at its first '=' so that
\* the later ones are part of the value.
C9_Syntax ==
  /\ dec.taken > 0 => dec.line = AllLines(input)[dec.taken]
  /\ (dec.state = "Failed" /\ (~HasEq(dec.line) \/ ~is_utf8(KeyPart(dec.line)))) =>
       dec.ret[1] = Err(Syntax(dec.line))
  /\ (dec.state = "Failed" /\ dec.ret[1].err.kind = "Syntax") =>
       (~HasEq(dec.line) \/ ~is_utf8(KeyPart(dec.line)))
  /\ TookLine(k_url) => (dec.state # "Failed" /\ dec.ctx.url = Some(ValuePart(dec.line)))

\* C9's case: from_bytes has failed with Syntax on the second line, which
\* has no '=', after a line with two.
C9_Witness ==
  /\ input = Join(<<Line(k_url, v_plain), l_malformed>>, FALSE)
  /\ dec.state = "Failed"
  /\ dec.ret[1] = Err(Syntax(l_malformed))

\* The kind of failure of a line, "none" for a line that is stored or ignored.
FailKind(l) ==
  IF ~HasEq(l) \/ ~is_utf8(KeyPart(l)) THEN "Syntax"
  ELSE IF Contains(KeyPart(l), NUL) \/ Contains(ValuePart(l), NUL) THEN "Encoding"
  ELSE IF KeyPart(l) \in TextKeys /\ ~is_utf8(ValuePart(l)) THEN "IllformedUtf8InValue"
  ELSE "none"

\* The indexes of the failing lines before the first empty line.
Failing(inp) ==
  LET ls == Before(AllLines(inp))
  IN  {i \in 1..Len(ls) : FailKind(ls[i]) # "none"}

FirstFailing(inp) == CHOOSE i \in Failing(inp) : \A j \in Failing(inp) : i <= j

\* Where from_bytes is, against the failing lines of its input (part of C10).
C10_Positions ==
  /\ dec.state = "Scanning" =>
       (dec.ret = None /\ \A i \in Failing(input) : i > dec.taken)
  /\ dec.state = "Failed" =>
       /\ Failing(input) # {}
       /\ dec.taken = FirstFailing(input)
       /\ ~dec.ret[1].ok
       /\ dec.ret[1].err.kind = FailKind(Before(AllLines(input))[dec.taken])
  /\ dec.state = "Done" =>
       /\ Failing(input) = {}
       /\ dec.ret = Some(Ok(dec.ctx))

\* C10: from_bytes takes the lines in order, one at a time; it fails at the
\* first line before the first empty line that is a syntax, encoding or
\* ill-formed UTF-8 failure, with that line's error; it returns Ok exactly
\* when no such line fails; Done and Failed are final; and one of the two is
\* always reached, because every turn of the loop either returns or leaves
\* fewer bytes unread.
C10_StateMachine ==
  /\ []C10_Positions
  /\ [][/\ dec.state = "Scanning" =>
             /\ dec'.taken \in {dec.taken, dec.taken + 1}
             /\ dec'.state \in {"Done", "Failed"} \/ Len(dec'.rest) < Len(dec.rest)
        /\ dec.state \in {"Done", "Failed"} => dec' = dec]_vars

\* C10's case: ill-formed UTF-8 in username on line 1 is the error although
\* line 2 has no '='.
C10_Witness ==
  /\ input = Join(<<Line(k_username, v_bad), l_malformed>>, TRUE)
  /\ dec.state = "Failed"
  /\ dec.taken = 1
  /\ dec.ret[1] = Err(IllformedUtf8InValue(k_username, v_bad))

====
